---- MODULE Spec2Model ----
(***************************************************************************)
(* Religious Education API (src/main.py, src/schemas.py): the admin gate,  *)
(* the identifier codec, the content / question handlers over the document *)
(* store, and the quiz grading flow.                                       *)
(*                                                                         *)
(* Strings that the code inspects character by character (the             *)
(* Authorization header, identifiers) are sequences of one-character       *)
(* strings.  Every handler step records the request it served and the      *)
(* response it gave in `resp`.                                             *)
(***************************************************************************)
EXTENDS Integers, Sequences, FiniteSets, TLC

VARIABLES store, clients, resp, observe

vars == <<store, clients, resp, observe>>

\* ------------------------------------------------------------------ bounds
\* The store holds at most MaxDocs documents, all collections together.
MaxDocs == 3

\* ----------------------------------------------------------------- strings
Repeat(ch, n) == [i \in 1..n |-> ch]

\* str.lower() on the characters the model uses.
LowerChar(ch) ==
    CASE ch = "A" -> "a"
      [] ch = "B" -> "b"
      [] ch = "D" -> "d"
      [] ch = "E" -> "e"
      [] ch = "R" -> "r"
      [] OTHER -> ch

Lower(s) == [i \in 1..Len(s) |-> LowerChar(s[i])]

\* str.startswith(prefix)
StartsWith(s, prefix) ==
    /\ Len(s) >= Len(prefix)
    /\ SubSeq(s, 1, Len(prefix)) = prefix

\* Position of the first space of s (0 when there is none).
RECURSIVE FirstSpaceFrom(_, _)
FirstSpaceFrom(s, i) ==
    IF i > Len(s) THEN 0
    ELSE IF s[i] = " " THEN i
    ELSE FirstSpaceFrom(s, i + 1)

\* s.split(" ", 1)[1]: what follows the first space.
AfterFirstSpace(s) ==
    LET k == FirstSpaceFrom(s, 1) IN SubSeq(s, k + 1, Len(s))

\* ----------------------------------------------------------- configuration
ADMIN_PASSWORD == <<"p", "w">>
ADMIN_TOKEN == <<"t", "k">>

\* The Authorization header is absent (Header(None)).
NoHeader == <<"<absent>">>

\* --------------------------------------------------------------- responses
NoId == <<"<none>">>

\* A request and its response: the handler, the credential and the
\* identifier the request carried, the HTTP status, the detail of the
\* HTTPException, the returned body, and the number of store calls the
\* handler made.  For submit_quiz, answers is the submitted list and
\* questions what the retrieval returned; fault says a store call raised.
Response(op, auth, id, status, detail, body, calls) ==
    [op |-> op, auth |-> auth, id |-> id, answers |-> <<>>, questions |-> <<>>,
     fault |-> FALSE, status |-> status, detail |-> detail, body |-> body,
     calls |-> calls]

\* An uncaught store exception: the framework answers 500.
StoreFailure(op, auth, id, calls) ==
    [Response(op, auth, id, 500, "Internal Server Error", "none", calls)
        EXCEPT !.fault = TRUE]

\* -------------------------------------------------------------------- auth
RequireAdminNoTokenCheck(authorization) ==
    IF \/ authorization = NoHeader
       \/ authorization = <<>>
       \/ ~StartsWith(Lower(authorization), <<"b", "e", "a", "r", "e", "r", " ">>)
    THEN [ok |-> FALSE, status |-> 401, detail |-> "Unauthorized"]
    ELSE [ok |-> TRUE, status |-> 200, detail |-> ""]

\* require_admin: TRUE, or the HTTPException it raises.
RequireAdmin(authorization) ==
    IF \/ authorization = NoHeader
       \/ authorization = <<>>
       \/ ~StartsWith(Lower(authorization), <<"b", "e", "a", "r", "e", "r", " ">>)
    THEN [ok |-> FALSE, status |-> 401, detail |-> "Unauthorized"]
    ELSE IF AfterFirstSpace(authorization) # ADMIN_TOKEN
    THEN [ok |-> FALSE, status |-> 401, detail |-> "Unauthorized"]
    ELSE [ok |-> TRUE, status |-> 200, detail |-> ""]

LoginSameMessage(password) ==
    IF password # ADMIN_PASSWORD
    THEN Response("login", password, NoId, 401, "Unauthorized", "none", 0)
    ELSE Response("login", password, NoId, 200, "", [token |-> ADMIN_TOKEN], 0)

\* login: the token, or 401 "Password salah".  The record's auth field holds
\* the password presented.
LoginResponse(password) ==
    IF password # ADMIN_PASSWORD
    THEN Response("login", password, NoId, 401, "Password salah", "none", 0)
    ELSE Response("login", password, NoId, 200, "", [token |-> ADMIN_TOKEN], 0)

\* ------------------------------------------------------------- identifiers
HexChars == {"0", "1", "2", "3", "4", "5", "6", "7", "8", "9",
             "a", "b", "c", "d", "e", "f", "A", "B", "C", "D", "E", "F"}

Digit(n) == CASE n = 0 -> "0" [] n = 1 -> "1" [] n = 2 -> "2" [] n = 3 -> "3"
              [] n = 4 -> "4" [] n = 5 -> "5" [] n = 6 -> "6" [] n = 7 -> "7"
              [] n = 8 -> "8" [] n = 9 -> "9"

\* ObjectId(id_str) accepts exactly the strings of 24 hexadecimal digits.
IsObjectIdString(s) ==
    /\ Len(s) = 24
    /\ \A i \in 1..Len(s) : s[i] \in HexChars

\* to_object_id: the ObjectId (12 bytes, written here as lower-case hex), or
\* the HTTPException 400 "ID tidak valid".
ToObjectId(id_str) ==
    IF IsObjectIdString(id_str)
    THEN [ok |-> TRUE, oid |-> Lower(id_str)]
    ELSE [ok |-> FALSE, oid |-> <<>>]

\* The identifier the store generates for the n-th document of a collection,
\* as str(inserted_id): identifiers are unique over the whole store.
CollectionChar(collection) ==
    CASE collection = "material" -> "a"
      [] collection = "video" -> "b"
      [] collection = "photo" -> "c"
      [] collection = "quiz" -> "d"
      [] collection = "question" -> "e"
      [] collection = "submission" -> "f"

OidOf(collection, n) == Repeat("0", 22) \o <<CollectionChar(collection), Digit(n)>>

UpperChar(ch) ==
    CASE ch = "a" -> "A"
      [] ch = "d" -> "D"
      [] ch = "e" -> "E"
      [] OTHER -> ch

Upper(s) == [i \in 1..Len(s) |-> UpperChar(s[i])]

\* ------------------------------------------------------------------ inputs
Headers ==
    { NoHeader,
      <<>>,
      <<"B", "a", "s", "i", "c", " ", "t", "k">>,
      <<"B", "e", "a", "r", "e", "r", "t", "k">>,
      <<"B", "e", "a", "r", "e", "r", " ", "x">>,
      <<"B", "e", "a", "r", "e", "r", " ", "t", "k">>,
      <<"b", "e", "a", "r", "e", "r", " ", "t", "k">> }

Bearer == <<"B", "e", "a", "r", "e", "r", " ", "t", "k">>
TokenHeaders == { Bearer, <<"b", "e", "a", "r", "e", "r", " ", "t", "k">> }

Passwords == { ADMIN_PASSWORD, <<"p">> }

\* A well-formed identifier of no stored document, its upper-case spelling,
\* and malformed identifiers.
QuizA == Repeat("a", 24)
QuizAUpper == Repeat("A", 24)
ShortId == <<"z", "z">>
NonHexId == Repeat("0", 23) \o <<"g">>
Malformed == { ShortId, NonHexId }

\* Path identifiers for the updates of a collection: its first two
\* identifiers, one of them in upper case, an identifier of another
\* collection, and the malformed ones.
PathIds(collection) ==
    { OidOf(collection, 1), OidOf(collection, 2), Upper(OidOf(collection, 1)),
      OidOf("video", 1), ShortId, NonHexId }
QuizPathIds == { QuizA, QuizAUpper, ShortId }

\* Submission.answers: the lists of up to two answers, and the lists
\* submitted when requests of several clients interleave.
AnswerValues == { 0, 1 }
AnswerLists == UNION { [1..n -> AnswerValues] : n \in { 0, 1, 2 } }
ConcurrentAnswerLists == { <<>>, <<0>>, <<1>>, <<1, 0>> }

Titles == { "a", "b" }
MaterialBodies ==
    { [title |-> t, content |-> "c", category |-> "none", thumbnail_url |-> "none"] :
        t \in Titles }
VideoBodies == { [title |-> "a", url |-> "u", description |-> "none"] }
PhotoBodies == { [title |-> "a", image_url |-> "u", caption |-> "none"] }
QuizBodies == { [title |-> t, description |-> "none"] : t \in Titles }

\* Question: options has at least two entries, correct_index >= 0
\* (src/schemas.py); quiz_id is any string.
QuestionBody(q, k) ==
    [quiz_id |-> q, text |-> "q", options |-> <<"x", "y">>, correct_index |-> k]

QuestionBodies == { QuestionBody(QuizA, 0), QuestionBody(QuizA, 1) }

\* The requests to a gated create: every header with one body, and the
\* headers that carry the admin token with every body; the store call fails
\* in one of them.
CreateRequests(bodies) ==
    LET b0 == CHOOSE b \in bodies : TRUE IN
    { [auth |-> h, data |-> b0, fault |-> FALSE] : h \in Headers }
    \cup { [auth |-> h, data |-> b, fault |-> FALSE] : h \in TokenHeaders, b \in bodies }
    \cup { [auth |-> Bearer, data |-> b0, fault |-> TRUE] }

\* The requests to a gated update: every header with a well-formed and a
\* malformed identifier, and the admin token with every identifier and body;
\* the store call fails in one of them.
UpdateRequests(collection, bodies) ==
    LET b0 == CHOOSE b \in bodies : TRUE IN
    { [auth |-> h, id |-> i, data |-> b0, fault |-> FALSE] :
        h \in Headers, i \in { OidOf(collection, 1), ShortId } }
    \cup { [auth |-> Bearer, id |-> i, data |-> b, fault |-> FALSE] :
            i \in PathIds(collection), b \in bodies }
    \cup { [auth |-> Bearer, id |-> OidOf(collection, 1), data |-> b0, fault |-> TRUE] }

\* The requests to create_question: those of a gated create, and the admin
\* token with a body whose quiz_id is malformed.
QuestionCreateRequests ==
    CreateRequests(QuestionBodies)
    \cup { [auth |-> Bearer, data |-> QuestionBody(i, 0), fault |-> FALSE] : i \in Malformed }

\* The requests to submit_quiz: every quiz identifier with every list of
\* answers; the retrieval fails in one of them.
SubmitRequests(lists) ==
    { [quiz_id |-> q, answers |-> a, fault |-> FALSE] : q \in QuizPathIds, a \in lists }
    \cup { [quiz_id |-> QuizA, answers |-> <<0>>, fault |-> TRUE] }

\* ------------------------------------------------------------------- store
Collections == { "material", "video", "photo", "quiz", "question", "submission" }

EmptyStore == [c \in Collections |-> <<>>]

DocCount(st) ==
    Len(st["material"]) + Len(st["video"]) + Len(st["photo"]) + Len(st["quiz"])
        + Len(st["question"]) + Len(st["submission"])

\* The identifier insert_one gives the next document of the collection.
NewId(st, collection) == OidOf(collection, Len(st[collection]) + 1)

\* create_document(collection, data): insert_one, the store generating _id.
CreateDocument(st, collection, data) ==
    [st EXCEPT ![collection] = Append(@, [_id |-> NewId(st, collection), data |-> data])]

\* get_documents("question", {"quiz_id": quiz_id}): the documents whose
\* quiz_id field equals the string, in the store's order.
GetDocuments(st, collection, quiz_id) ==
    SelectSeq(st[collection], LAMBDA d : d.data.quiz_id = quiz_id)

\* db[collection].update_one({"_id": oid}, {"$set": data}).matched_count
MatchedCount(st, collection, oid) ==
    Cardinality({ i \in 1..Len(st[collection]) : st[collection][i]._id = oid })

UpdateOneUpsert(st, collection, oid, data) ==
    IF MatchedCount(st, collection, oid) = 0
    THEN [st EXCEPT ![collection] = Append(@, [_id |-> oid, data |-> data])]
    ELSE [st EXCEPT ![collection] =
            [i \in 1..Len(@) |-> IF @[i]._id = oid THEN [@[i] EXCEPT !.data = data]
                                 ELSE @[i]]]

\* db[collection].update_one({"_id": oid}, {"$set": data}): every field of
\* the matched document is set from the body; nothing is inserted.
UpdateOne(st, collection, oid, data) ==
    [st EXCEPT ![collection] =
        [i \in 1..Len(@) |-> IF @[i]._id = oid THEN [@[i] EXCEPT !.data = data]
                             ELSE @[i]]]

\* ----------------------------------------------------------------- grading
\* The checks of submit_quiz between the retrieval and the loop.
SubmitCheckMismatchFirst(questions, answers) ==
    IF Len(answers) # Len(questions) THEN "mismatch"
    ELSE IF questions = <<>> THEN "not_found"
    ELSE "ok"

SubmitCheckShortOnly(questions, answers) ==
    IF questions = <<>> THEN "not_found"
    ELSE IF Len(answers) < Len(questions) THEN "mismatch"
    ELSE "ok"

SubmitCheck(questions, answers) ==
    IF questions = <<>> THEN "not_found"
    ELSE IF Len(answers) # Len(questions) THEN "mismatch"
    ELSE "ok"

IsCorrectOffByOne(answer, q) == answer = q.data.correct_index + 1

\* int(submission.answers[idx]) == int(q.get("correct_index", -1)); every
\* stored question has the field (src/schemas.py).
IsCorrect(answer, q) == answer = q.data.correct_index

\* One result record of the loop.
ResultRecord(answer, q) ==
    [question |-> q.data.text, your_answer |-> answer,
     correct_answer |-> q.data.correct_index, is_correct |-> IsCorrect(answer, q),
     options |-> q.data.options]

\* The loop of submit_quiz from position idx on (idx counts from 1 here),
\* with the count and the records accumulated so far.
RECURSIVE GradeLoop(_, _, _, _, _)
GradeLoop(questions, answers, idx, correct, results) ==
    IF idx > Len(questions) THEN [correct |-> correct, results |-> results]
    ELSE GradeLoop(questions, answers, idx + 1,
                   correct + (IF IsCorrect(answers[idx], questions[idx]) THEN 1 ELSE 0),
                   Append(results, ResultRecord(answers[idx], questions[idx])))

\* round(x, 2) of the fraction n / d in hundredths, ties to the even digit.
RoundHalfEven(n, d) ==
    LET q == n \div d
        r == n % d
    IN  IF 2 * r < d THEN q
        ELSE IF 2 * r > d THEN q + 1
        ELSE IF q % 2 = 0 THEN q ELSE q + 1

ScoreFraction(correct, total) == RoundHalfEven(correct * 100, total)

\* score = round((correct / total) * 100, 2), in hundredths of a point.
Score(correct, total) == RoundHalfEven(correct * 10000, total)

\* What submit_quiz returns once the answers are graded.
GradeResult(questions, answers) ==
    LET g == GradeLoop(questions, answers, 1, 0, <<>>)
        total == Len(questions)
    IN  [score |-> Score(g.correct, total), correct |-> g.correct, total |-> total,
         results |-> g.results]

SubmissionRecordRecount(st, client) ==
    [quiz_id |-> client.quiz_id, answers |-> client.answers,
     score |-> client.result.score, correct |-> client.result.correct,
     total |-> Len(SelectSeq(st["question"],
                             LAMBDA d : d.data.quiz_id = client.quiz_id))]

\* The document submit_quiz hands to create_document("submission", ...): it
\* is built from the request's own locals, the store is not read again.
SubmissionRecord(st, client) ==
    [quiz_id |-> client.quiz_id, answers |-> client.answers,
     score |-> client.result.score, correct |-> client.result.correct,
     total |-> client.result.total]

\* ------------------------------------------------------------------- state
Clients == { "c1", "c2" }

Idle == [pc |-> "idle", quiz_id |-> <<>>, answers |-> <<>>, questions |-> <<>>,
         result |-> "none"]

\* No response is waiting to be sent.
NoResponse == Response("none", NoHeader, NoId, 0, "", "none", 0)

Init ==
    /\ store = EmptyStore
    /\ clients = [c \in Clients |-> Idle]
    /\ resp = NoResponse
    /\ observe = TRUE

\* The same start with the responses left unrecorded: the store and the
\* requests in flight are then the whole state.
InitQuiet ==
    /\ store = EmptyStore
    /\ clients = [c \in Clients |-> Idle]
    /\ resp = NoResponse
    /\ observe = FALSE

\* The response a handler gives, as recorded.
Seen(r) == IF observe THEN r ELSE NoResponse

\* A handler step that ends a request leaves its response in resp, and the
\* framework sends it before the next request's outcome is recorded.
Ready == resp = NoResponse

send_response ==
    /\ ~Ready
    /\ resp' = NoResponse
    /\ UNCHANGED observe
    /\ UNCHANGED <<store, clients>>

\* ------------------------------------------------------------------- login
login ==
    /\ Ready
    /\ UNCHANGED observe
    /\ \E password \in Passwords :
        /\ resp' = Seen(LoginResponse(password))
        /\ UNCHANGED <<store, clients>>

\* ----------------------------------------------------------------- creates
\* The shape of create_material, create_video, create_photo, create_quiz:
\* the gate, then create_document, then {"id": inserted_id}.
CreateHandler(op, collection, authorization, data, fault) ==
    LET gate == RequireAdmin(authorization) IN
    IF ~gate.ok
    THEN /\ resp' = Seen(Response(op, authorization, NoId, gate.status, gate.detail, "none", 0))
         /\ UNCHANGED <<store, clients>>
    ELSE IF fault
    THEN /\ resp' = Seen(StoreFailure(op, authorization, NoId, 1))
         /\ UNCHANGED <<store, clients>>
    ELSE /\ DocCount(store) < MaxDocs
         /\ store' = CreateDocument(store, collection, data)
         /\ resp' = Seen(Response(op, authorization, NoId, 200, "",
                             [id |-> NewId(store, collection)], 1))
         /\ UNCHANGED clients

create_material ==
    /\ Ready
    /\ UNCHANGED observe
    /\ \E r \in CreateRequests(MaterialBodies) :
        CreateHandler("create_material", "material", r.auth, r.data, r.fault)

create_video ==
    /\ Ready
    /\ UNCHANGED observe
    /\ \E r \in CreateRequests(VideoBodies) :
        CreateHandler("create_video", "video", r.auth, r.data, r.fault)

create_photo ==
    /\ Ready
    /\ UNCHANGED observe
    /\ \E r \in CreateRequests(PhotoBodies) :
        CreateHandler("create_photo", "photo", r.auth, r.data, r.fault)

create_quiz ==
    /\ Ready
    /\ UNCHANGED observe
    /\ \E r \in CreateRequests(QuizBodies) :
        CreateHandler("create_quiz", "quiz", r.auth, r.data, r.fault)

\* create_question: the gate, to_object_id on the body's quiz_id, then
\* create_document.
create_question ==
    /\ Ready
    /\ UNCHANGED observe
    /\ \E r \in QuestionCreateRequests :
        LET authorization == r.auth
            question == r.data
            fault == r.fault
            gate == RequireAdmin(authorization)
            parsed == ToObjectId(question.quiz_id)
        IN
        IF ~gate.ok
        THEN /\ resp' = Seen(Response("create_question", authorization, question.quiz_id,
                                 gate.status, gate.detail, "none", 0))
             /\ UNCHANGED <<store, clients>>
        ELSE IF ~parsed.ok
        THEN /\ resp' = Seen(Response("create_question", authorization, question.quiz_id,
                                 400, "ID tidak valid", "none", 0))
             /\ UNCHANGED <<store, clients>>
        ELSE IF fault
        THEN /\ resp' = Seen(StoreFailure("create_question", authorization, question.quiz_id, 1))
             /\ UNCHANGED <<store, clients>>
        ELSE /\ DocCount(store) < MaxDocs
             /\ store' = CreateDocument(store, "question", question)
             /\ resp' = Seen(Response("create_question", authorization, question.quiz_id,
                                 200, "", [id |-> NewId(store, "question")], 1))
             /\ UNCHANGED clients

\* ----------------------------------------------------------------- updates
\* The shape of update_material, update_quiz, update_question: the gate,
\* to_object_id, update_one, 404 when nothing matched.
UpdateHandler(op, collection, notFound, authorization, id, data, fault) ==
    LET gate == RequireAdmin(authorization)
        parsed == ToObjectId(id)
    IN
    IF ~gate.ok
    THEN /\ resp' = Seen(Response(op, authorization, id, gate.status, gate.detail, "none", 0))
         /\ UNCHANGED <<store, clients>>
    ELSE IF ~parsed.ok
    THEN /\ resp' = Seen(Response(op, authorization, id, 400, "ID tidak valid", "none", 0))
         /\ UNCHANGED <<store, clients>>
    ELSE IF fault
    THEN /\ resp' = Seen(StoreFailure(op, authorization, id, 1))
         /\ UNCHANGED <<store, clients>>
    ELSE /\ store' = UpdateOne(store, collection, parsed.oid, data)
         /\ resp' = Seen(IF MatchedCount(store, collection, parsed.oid) = 0
                         THEN Response(op, authorization, id, 404, notFound, "none", 1)
                         ELSE Response(op, authorization, id, 200, "",
                                       [updated |-> TRUE], 1))
         /\ UNCHANGED clients

update_material ==
    /\ Ready
    /\ UNCHANGED observe
    /\ \E r \in UpdateRequests("material", MaterialBodies) :
        UpdateHandler("update_material", "material", "Materi tidak ditemukan",
                      r.auth, r.id, r.data, r.fault)

update_quiz ==
    /\ Ready
    /\ UNCHANGED observe
    /\ \E r \in UpdateRequests("quiz", QuizBodies) :
        UpdateHandler("update_quiz", "quiz", "Kuis tidak ditemukan",
                      r.auth, r.id, r.data, r.fault)

update_question ==
    /\ Ready
    /\ UNCHANGED observe
    /\ \E r \in UpdateRequests("question", QuestionBodies) :
        UpdateHandler("update_question", "question", "Pertanyaan tidak ditemukan",
                      r.auth, r.id, r.data, r.fault)

\* ------------------------------------------------------------------- lists
\* list_questions: to_object_id on the path parameter, then get_documents;
\* each document's _id becomes the string field id.
list_questions ==
    /\ Ready
    /\ UNCHANGED observe
    /\ \E quiz_id \in QuizPathIds, fault \in BOOLEAN :
        LET parsed == ToObjectId(quiz_id)
            docs == GetDocuments(store, "question", quiz_id)
        IN
        /\ resp' = Seen(IF ~parsed.ok
                        THEN Response("list_questions", NoHeader, quiz_id, 400,
                                      "ID tidak valid", "none", 0)
                        ELSE IF fault
                        THEN StoreFailure("list_questions", NoHeader, quiz_id, 1)
                        ELSE Response("list_questions", NoHeader, quiz_id, 200, "",
                                      [i \in 1..Len(docs) |-> [id |-> docs[i]._id,
                                                               data |-> docs[i].data]], 1))
        /\ UNCHANGED <<store, clients>>

\* ------------------------------------------------------------------ submit
\* submit_quiz up to the end of the grading: the retrieval of the quiz's
\* questions, the two checks, the loop and the score.  Requests of several
\* clients interleave at the store calls.
submit_quiz_fetch(c, requests) ==
    /\ Ready
    /\ UNCHANGED observe
    /\ clients[c].pc = "idle"
    /\ \E r \in requests :
        LET quiz_id == r.quiz_id
            answers == r.answers
            fault == r.fault
            questions == GetDocuments(store, "question", quiz_id)
            check == SubmitCheck(questions, answers)
            req == [Response("submit_quiz", NoHeader, quiz_id, 0, "", "none", 1)
                        EXCEPT !.answers = answers, !.questions = questions]
        IN
        IF fault
        THEN /\ resp' = Seen([StoreFailure("submit_quiz", NoHeader, quiz_id, 1)
                            EXCEPT !.answers = answers])
             /\ UNCHANGED <<store, clients>>
        ELSE IF check = "not_found"
        THEN /\ resp' = Seen([req EXCEPT !.status = 404,
                                    !.detail = "Pertanyaan tidak ditemukan"])
             /\ UNCHANGED <<store, clients>>
        ELSE IF check = "mismatch"
        THEN /\ resp' = Seen([req EXCEPT !.status = 400,
                                    !.detail = "Jumlah jawaban tidak sesuai"])
             /\ UNCHANGED <<store, clients>>
        ELSE /\ clients' = [clients EXCEPT ![c] =
                               [pc |-> "graded", quiz_id |-> quiz_id, answers |-> answers,
                                questions |-> questions,
                                result |-> GradeResult(questions, answers)]]
             /\ UNCHANGED <<store, resp>>

\* submit_quiz from create_document("submission", ...) on: the call is not
\* guarded, so its exception ends the request.
submit_quiz_store(c) ==
    /\ Ready
    /\ UNCHANGED observe
    /\ clients[c].pc = "graded"
    /\ \E fault \in BOOLEAN :
        LET me == clients[c]
            req == [Response("submit_quiz", NoHeader, me.quiz_id, 0, "", "none", 2)
                        EXCEPT !.answers = me.answers, !.questions = me.questions]
        IN
        IF fault
        THEN /\ resp' = Seen([req EXCEPT !.status = 500, !.detail = "Internal Server Error",
                                    !.fault = TRUE])
             /\ clients' = [clients EXCEPT ![c] = Idle]
             /\ UNCHANGED store
        ELSE /\ DocCount(store) < MaxDocs
             /\ store' = CreateDocument(store, "submission", SubmissionRecord(store, me))
             /\ resp' = Seen([req EXCEPT !.status = 200, !.body = me.result])
             /\ clients' = [clients EXCEPT ![c] = Idle]

\* ---------------------------------------------------------- specifications
\* The admin surface: login, the gated creates and updates of every
\* collection, and the public list of a quiz's questions.
Next ==
    \/ send_response
    \/ login
    \/ create_material
    \/ create_video
    \/ create_photo
    \/ create_quiz
    \/ create_question
    \/ update_material
    \/ update_quiz
    \/ update_question
    \/ list_questions

Spec == Init /\ [][Next]_vars

\* The quiz flow, one submission at a time: the questions' handlers and
\* submit_quiz.
NextQuiz ==
    \/ send_response
    \/ create_question
    \/ update_question
    \/ list_questions
    \/ submit_quiz_fetch("c1", SubmitRequests(AnswerLists))
    \/ submit_quiz_store("c1")

SpecQuiz == Init /\ [][NextQuiz]_vars

\* The quiz flow with the submissions of all clients and the questions'
\* writes interleaved at the store calls.
NextConcurrent ==
    \/ create_question
    \/ update_question
    \/ \E c \in Clients : submit_quiz_fetch(c, SubmitRequests(ConcurrentAnswerLists))
    \/ \E c \in Clients : submit_quiz_store(c)

SpecConcurrent == InitQuiet /\ [][NextConcurrent]_vars

\* ------------------------------------------------------------------ claims
GatedOps == { "create_material", "create_video", "create_photo", "create_quiz",
              "create_question", "update_material", "update_quiz", "update_question" }

UpdateOps == { "update_material", "update_quiz", "update_question" }

CollectionOf(op) ==
    CASE op = "update_material" -> "material"
      [] op = "update_quiz" -> "quiz"
      [] op = "update_question" -> "question"

\* The positions of the stored questions whose quiz_id is the string id.
QuestionsOf(st, id) ==
    { i \in 1..Len(st["question"]) : st["question"][i].data.quiz_id = id }

\* The positions where the answer equals the question's correct_index.
Hits(questions, answers) ==
    { i \in 1..Len(questions) : answers[i] = questions[i].data.correct_index }

\* A submit_quiz response to N >= 1 retrieved questions and N answers, no
\* store call having failed.
GradedSubmit ==
    /\ resp.op = "submit_quiz"
    /\ ~resp.fault
    /\ Len(resp.questions) >= 1
    /\ Len(resp.answers) = Len(resp.questions)

\* C1: a gated create or update whose Authorization header is absent, is not
\* of the form "Bearer <token>" (the scheme name read without regard to
\* case), or carries another token than the admin token, answers 401 and
\* leaves the document store as it was.
C1_UnauthorizedLeavesStore ==
    [][ (resp'.op \in GatedOps /\ resp'.auth \notin TokenHeaders)
            => (resp'.status = 401 /\ resp'.calls = 0 /\ store' = store) ]_vars

C1_Witness ==
    /\ resp.op = "update_material"
    /\ resp.auth = <<"B", "e", "a", "r", "e", "r", " ", "x">>
    /\ resp.id = OidOf("material", 1)
    /\ resp.status = 401
    /\ Len(store["material"]) = 1

\* C2: for N >= 1 retrieved questions and N answers, submit returns total = N,
\* N result records, correct = the number of positions whose answer equals
\* the question's correct_index, each record's is_correct saying so for its
\* position; correct + incorrect = N and 0 <= score <= 100.
C2_GradeCounts ==
    GradedSubmit =>
        LET N == Len(resp.questions)
            hits == Hits(resp.questions, resp.answers)
            r == resp.body
        IN  /\ resp.status = 200
            /\ r.total = N
            /\ Len(r.results) = N
            /\ r.correct = Cardinality(hits)
            /\ \A i \in 1..N : r.results[i].is_correct <=> (i \in hits)
            /\ r.correct + Cardinality({ i \in 1..N : ~r.results[i].is_correct }) = N
            /\ 0 <= r.score /\ r.score <= 10000

C2_Witness ==
    /\ GradedSubmit
    /\ resp.status = 200
    /\ resp.body.total = 2
    /\ resp.body.correct = 1
    /\ resp.answers = <<1, 1>>

\* C3: for N >= 1 questions and N answers, submit returns score 100.00 when
\* every answer equals its question's correct_index and 0.00 when every
\* answer differs from it.
C3_ExtremeScores ==
    GradedSubmit =>
        LET N == Len(resp.questions)
            hits == Hits(resp.questions, resp.answers)
        IN  /\ (hits = 1..N) => (resp.status = 200 /\ resp.body.score = 10000)
            /\ (hits = {}) => (resp.status = 200 /\ resp.body.score = 0)

C3_Witness ==
    /\ GradedSubmit
    /\ Len(resp.questions) = 2
    /\ Hits(resp.questions, resp.answers) = {}
    /\ resp.status = 200

\* C4: a submit to a quiz_id for which the store holds no question answers
\* 404 whatever the answers are, and writes nothing.
C4_NoQuestionsNotFound ==
    [][ (/\ resp'.op = "submit_quiz"
         /\ ~resp'.fault
         /\ QuestionsOf(store, resp'.id) = {})
            => (/\ resp'.status = 404
                /\ resp'.detail = "Pertanyaan tidak ditemukan"
                /\ resp'.body = "none"
                /\ store' = store) ]_vars

C4_Witness ==
    /\ resp.op = "submit_quiz"
    /\ resp.status = 404
    /\ resp.answers = <<>>
    /\ resp.id = QuizAUpper
    /\ Len(store["question"]) = 2

\* The status of a submit whose answers list has another length than the
\* N >= 1 questions retrieved.
C5_Status ==
    (/\ resp.op = "submit_quiz"
     /\ ~resp.fault
     /\ Len(resp.questions) >= 1
     /\ Len(resp.answers) # Len(resp.questions))
        => (resp.status = 400 /\ resp.detail = "Jumlah jawaban tidak sesuai")

\* C5: for N >= 1 stored questions, a submit whose answers list is shorter
\* or longer than N answers 400 whatever the answers are, and no Submission
\* record is written.
C5_CountMismatch ==
    /\ []C5_Status
    /\ [][ (/\ resp'.op = "submit_quiz"
            /\ ~resp'.fault
            /\ QuestionsOf(store, resp'.id) # {}
            /\ Len(resp'.answers) # Cardinality(QuestionsOf(store, resp'.id))
            /\ resp'.calls = 1)
               => (resp'.status = 400 /\ store' = store) ]_vars

C5_Witness ==
    /\ resp.op = "submit_quiz"
    /\ resp.status = 400
    /\ Len(resp.questions) = 1
    /\ Len(resp.answers) = 2

\* C6: when the write of the Submission record fails, submit still returns
\* the computed {score, correct, total, results}.
C6_WriteFailureSwallowed ==
    (/\ resp.op = "submit_quiz"
     /\ resp.fault
     /\ resp.calls = 2)
        => (/\ resp.status = 200
            /\ resp.body = GradeResult(resp.questions, resp.answers))

\* C7: an operation given a malformed document identifier (an authorized
\* update, list questions by quiz, submit to a quiz, the quiz_id of an
\* authorized create question) answers 400 without any store lookup or write.
C7_MalformedRejected ==
    (/\ resp.op \in UpdateOps \cup { "create_question", "list_questions", "submit_quiz" }
     /\ resp.op \in GatedOps => resp.auth \in TokenHeaders
     /\ ~IsObjectIdString(resp.id))
        => (resp.status = 400 /\ resp.calls = 0)

\* C8: an authorized update with a well-formed identifier answers 404 and
\* leaves the store unchanged when no document of the collection has that
\* identifier, and answers {updated: true} when one has, whatever the body.
C8_UpdateNotFound ==
    [][ (/\ resp'.op \in UpdateOps
         /\ resp'.auth \in TokenHeaders
         /\ IsObjectIdString(resp'.id)
         /\ ~resp'.fault)
            => LET docs == store[CollectionOf(resp'.op)]
                   matched == { i \in 1..Len(docs) : docs[i]._id = Lower(resp'.id) }
               IN  IF matched = {}
                   THEN resp'.status = 404 /\ store' = store
                   ELSE /\ resp'.status = 200
                        /\ resp'.body = [updated |-> TRUE]
                        /\ Len(store'[CollectionOf(resp'.op)]) = Len(docs) ]_vars

C8_Witness ==
    /\ resp.op = "update_quiz"
    /\ resp.status = 404
    /\ resp.id = OidOf("quiz", 2)
    /\ Len(store["quiz"]) = 1

\* C9, first reading: every authorization failure, a wrong password on login
\* included, carries the same 401 and the same message as the gate's.
C9_SameMessage ==
    resp.status = 401 => resp.detail = RequireAdmin(NoHeader).detail

\* C9, second reading: every authorization failure answers 401; the gate's
\* failures (no header, malformed scheme, wrong token) carry the message
\* "Unauthorized" and a wrong password on login carries "Password salah".
C9_SameStatus ==
    /\ (resp.op \in GatedOps /\ resp.auth \notin TokenHeaders)
            => (resp.status = 401 /\ resp.detail = "Unauthorized")
    /\ (resp.op = "login" /\ resp.auth # ADMIN_PASSWORD)
            => (resp.status = 401 /\ resp.detail = "Password salah")

C9_Witness ==
    /\ resp.op = "login"
    /\ resp.auth # ADMIN_PASSWORD
    /\ resp.status = 401

\* Every stored Submission has as many answers as its total, total >= 1 and
\* 0 <= correct <= total.
SubmissionsSound(st) ==
    \A i \in 1..Len(st["submission"]) :
        LET d == st["submission"][i].data IN
        /\ Len(d.answers) = d.total
        /\ d.total >= 1
        /\ 0 <= d.correct /\ d.correct <= d.total

====
